---- MODULE Spec2Model ----
(***************************************************************************)
(* Model of the tail-and-fanout engine of Tail--f:                         *)
(*   websocket_manager.py  WebSocketManager (the fanout registry)          *)
(*   log_watcher.py        LogTailWatcher.watch (the per-file watcher)     *)
(*   log_watcher.py        LogTailWatcher.get_last_lines (reverse reader)  *)
(*   main.py               websocket_endpoint (subscriber life cycle)      *)
(*                                                                         *)
(* Four specifications share the module:                                   *)
(*   SpecFanout    several publishers and subscribers on one registry      *)
(*   SpecRegistry  one publisher, the registry's interface used freely     *)
(*   SpecWatch     one watcher on one path, publishing into the registry   *)
(*   SpecTail      get_last_lines on every small file                      *)
(***************************************************************************)
EXTENDS Integers, Sequences, FiniteSets, TLC

\* ------------------------------------------------------------------ bounds
\* Number of websocket objects that can exist at one time.
NumChan == 2
\* Number of tasks that call manager.broadcast concurrently (watch tasks).
NumPub == 2

Chan == 1..NumChan
Pubs == 1..NumPub
\* The watch task of SpecWatch publishes as publisher 1 and has one subscriber.
WatchPub == 1
WatchChan == {1}

\* Longest file of SpecWatch, in characters.
MaxLen == 2
\* Inode numbers the file system hands out; 0 stands for "no file" / None.
NumIno == 3
Inodes == 1..NumIno

\* Longest file of SpecTail, in bytes, and largest n asked for.
MaxTailLen == 5
MaxN == 2
\* The chunk size of get_last_lines, 8192 in the source (line 56), scaled down
\* with the files so that lines straddle and exceed a chunk.
ChunkMax == 2

NL == "\n"
\* Characters a writer appends to the watched file.
Char == {"a", NL}

VARIABLES
    active_connections,  \* WebSocketManager.active_connections: a set of channels
    endpoint,            \* per channel: position of its websocket_endpoint task
    it,                  \* per publisher: the frame of its _send_to_all call
    path_ino,            \* file system: inode the watched path names, 0 if missing
    disk,                \* file system: content of each inode
    file,                \* LogTailWatcher.file: inode of the open handle, 0 if None
    fpos,                \* position of the handle (what file.tell() returns)
    inode,               \* LogTailWatcher.inode, 0 if None
    first_open,          \* LogTailWatcher.first_open
    position,            \* LogTailWatcher.position
    rotated,             \* local variable rotated of watch
    size,                \* local variable size of watch (line 109), 0 once the
                         \*   cycle that read it is over
    line,                \* what readline returned in this cycle (with its terminator)
    wpc,                 \* where the watch task stands
    err,                 \* history: the failure of the current cycle, "none" if none
    pre,                 \* history: size of the file at the first open, 0 before it
                         \*   and once the path was rotated, deleted or truncated
    fresh,               \* history: the handle was opened on another file than the
                         \*   last one, and nothing was published from it yet
    reset,               \* history: this cycle took the truncation branch
    published,           \* history: offset behind the last line published from
                         \*   the file at the path, 0 if none and once the path
                         \*   was rotated, deleted or truncated
    fstate,              \* get_last_lines: "ok", or how the path fails
    fbytes,              \* get_last_lines: the bytes of the file at the path
    n,                   \* get_last_lines: parameter n
    pos,                 \* get_last_lines: local pos
    buffer,              \* get_last_lines: local buffer (bytes)
    lines,               \* get_last_lines: local lines
    result,              \* get_last_lines: the list returned
    raised,              \* get_last_lines: an exception left the call
    tpc                  \* where the get_last_lines call stands

regvars == <<active_connections, endpoint, it>>
fsvars == <<path_ino, disk>>
wvars == <<file, fpos, inode, first_open, position, rotated, size, line, wpc>>
hvars == <<err, pre, fresh, reset, published>>
tvars == <<fstate, fbytes, n, pos, buffer, lines, result, raised, tpc>>
vars == <<active_connections, endpoint, it, path_ino, disk, file, fpos, inode,
          first_open, position, rotated, size, line, wpc, err, pre, fresh, reset,
          published,
          fstate, fbytes, n, pos, buffer, lines, result, raised, tpc>>

Min(a, b) == IF a < b THEN a ELSE b

\* ------------------------------------------------- websocket_manager.py
\* The frame of a _send_to_all call that is not running. Fields: pc (where the
\* call stands), si_used (the set's size when the iterator was created), cur (the
\* channel whose send_text is awaited), to_remove (line 40), visited (channels
\* send_text was called on), twice (channels it was called on more than once),
\* stayed (channels subscribed at the start and not unsubscribed by anyone else
\* since), dirty (the set was modified while the iterator was live).
IdleFrame ==
    [pc |-> "idle", si_used |-> 0, cur |-> 0, to_remove |-> {},
     visited |-> {}, twice |-> {}, stayed |-> {}, dirty |-> FALSE]

\* Channels a running or just finished _send_to_all frame still refers to. A
\* websocket object is never reused, so a channel id is given to a new connection
\* only when no frame refers to it.
Referenced(c) ==
    \E p \in Pubs :
        /\ it[p].pc # "idle"
        /\ c \in ({it[p].cur} \cup it[p].to_remove \cup it[p].stayed \cup it[p].visited)

\* A change of active_connections made by someone else, seen from every frame:
\* a live set iterator (pc = "send") now iterates a set that was modified, and
\* the removed channels did not stay subscribed for the whole publish.
Touch(f, removed, added) ==
    [q \in Pubs |->
        IF f[q].pc = "send" /\ (removed \cup added) # {}
        THEN [f[q] EXCEPT !.dirty = TRUE, !.stayed = @ \ removed]
        ELSE IF f[q].pc = "returned"
        THEN [f[q] EXCEPT !.stayed = @ \ removed]
        ELSE f[q]]

\* The exception leaves _send_to_all: the frame is gone, to_remove with it.
RaisedFrame(s) == [IdleFrame EXCEPT !.pc = "raised", !.to_remove = s.to_remove]

\* The loop ended and lines 48-49 ran: what the call did stays readable.
ReturnedFrame(s) ==
    [s EXCEPT !.pc = "returned", !.cur = 0, !.si_used = 0, !.dirty = FALSE]

\* next() of the set iterator of `for connection in self.active_connections`
\* (line 41) for the frame s of publisher p, then the code up to the next await.
\* The iterator raises RuntimeError("Set changed size during iteration") when the
\* set's size differs from the size at the start of the loop. When the set was
\* modified but has its old size again (an add and a discard), the add may have
\* rebuilt the hash table, and the iterator goes on at its old index in the new
\* table: any member may come next, or the iteration may end. When the loop
\* ends, lines 48-49 discard every channel of to_remove.
IterNext(p, s) ==
    IF Cardinality(active_connections) # s.si_used
    THEN /\ it' = [it EXCEPT ![p] = RaisedFrame(s)]
         /\ UNCHANGED active_connections
    ELSE LET unvisited == active_connections \ s.visited
             more == IF s.dirty THEN active_connections ELSE unvisited
             ends == s.dirty \/ unvisited = {}
         IN \/ \E c \in more :
                 /\ it' = [it EXCEPT ![p] = [s EXCEPT !.pc = "send", !.cur = c]]
                 /\ UNCHANGED active_connections
            \/ /\ ends
               /\ active_connections' = active_connections \ s.to_remove
               /\ it' = [Touch(it, s.to_remove \cap active_connections, {})
                           EXCEPT ![p] = ReturnedFrame(s)]

\* _send_to_all, lines 40-43: to_remove = set(), the iterator is created and
\* yields its first channel; the task then awaits send_text.
SendToAllBegin(p) ==
    /\ it[p].pc = "idle"
    /\ IterNext(p, [IdleFrame EXCEPT
                      !.si_used = Cardinality(active_connections),
                      !.stayed = active_connections])

\* _send_to_all, lines 43-45: the awaited send_text of the current channel ends,
\* with success or with an exception (caught: the channel goes to to_remove);
\* then the loop asks the iterator for the next channel.
SendOutcome(s, ok) ==
    [s EXCEPT !.visited = @ \cup {s.cur},
              !.twice = IF s.cur \in s.visited THEN @ \cup {s.cur} ELSE @,
              !.to_remove = IF ok THEN @ ELSE @ \cup {s.cur}]

SendDone(p, ok) ==
    /\ it[p].pc = "send"
    /\ IterNext(p, SendOutcome(it[p], ok))

\* The truth values `if historical_lines` (main.py line 26) can have: the list
\* is empty when get_last_lines returns [] for every file (no file, no non-blank
\* line, or an open or read that fails), and can be non-empty only when a file
\* has a non-blank line. SpecFanout (wpc = "off") does not model the files.
historical_lines ==
    IF wpc = "off" THEN BOOLEAN
    ELSE {FALSE} \cup {path_ino # 0 /\ \E i \in 1..Len(disk[path_ino]) :
                                         disk[path_ino][i] # NL}

\* WebSocketManager.connect, lines 11-13: active_connections.add. Adding a
\* channel that is in the set already does not modify the set.
ManagerConnect(c) ==
    /\ active_connections' = active_connections \cup {c}
    /\ it' = Touch(it, {}, {c} \ active_connections)

\* Mutant: a discard counts as a change of the set also when the channel is absent.
ManagerDisconnectAlwaysTouches(c) ==
    /\ active_connections' = active_connections \ {c}
    /\ it' = Touch(it, {c}, {})

\* WebSocketManager.disconnect, lines 15-16: active_connections.discard, which
\* does nothing, and raises nothing, when the channel is absent.
ManagerDisconnect(c) ==
    /\ active_connections' = active_connections \ {c}
    /\ it' = Touch(it, {c} \cap active_connections, {})

\* websocket_endpoint, main.py lines 17-27, up to its first await after accept:
\* WebSocketManager.connect (lines 11-13) adds the channel, get_last_lines
\* collects the backlog, and only a non-empty backlog is sent ("connected": the
\* Historical send is awaited); with an empty one the task goes on to
\* receive_text at once.
connect(c) ==
    /\ endpoint[c] = "closed"
    /\ ~Referenced(c)
    /\ ManagerConnect(c)
    /\ \E sent \in historical_lines :
         endpoint' = [endpoint EXCEPT
                        ![c] = IF sent THEN "connected" ELSE "listening"]
    /\ UNCHANGED <<fsvars, wvars, hvars, tvars>>

\* websocket_endpoint, main.py lines 27-34: the awaited send of the Historical
\* message ends and the task awaits receive_text.
SendHistorical(c) ==
    /\ endpoint[c] = "connected"
    /\ endpoint' = [endpoint EXCEPT ![c] = "listening"]
    /\ UNCHANGED <<active_connections, it, fsvars, wvars, hvars, tvars>>

\* WebSocketManager.disconnect, lines 15-16, called from websocket_endpoint
\* (main.py lines 35-36) when receive_text raises WebSocketDisconnect.
disconnect(c) ==
    /\ endpoint[c] = "listening"
    /\ ManagerDisconnect(c)
    /\ endpoint' = [endpoint EXCEPT ![c] = "closed"]
    /\ UNCHANGED <<fsvars, wvars, hvars, tvars>>

\* manager.connect is called once more for a websocket whose endpoint task runs
\* (no caller in main.py does this; the registry's interface allows it).
Resubscribe(c) ==
    /\ endpoint[c] # "closed"
    /\ ManagerConnect(c)
    /\ UNCHANGED <<endpoint, fsvars, wvars, hvars, tvars>>

\* One awaited send_text of publisher p ends (the event loop resumes the task).
SendStep(p) ==
    /\ \E ok \in BOOLEAN : SendDone(p, ok)
    /\ UNCHANGED <<endpoint, fsvars, wvars, hvars, tvars>>

RegInit ==
    /\ active_connections = {}
    /\ endpoint = [c \in Chan |-> "closed"]
    /\ it = [p \in Pubs |-> IdleFrame]

\* ------------------------------------------------------------ file system
\* The inode a newly created file gets: one that neither the path nor the open
\* handle of the watcher refers to.
FreshIno == CHOOSE i \in Inodes : i # path_ino /\ i # file

\* Content of every inode once the path names inode p and the handle inode h:
\* a file that nothing refers to is gone.
Collect(d, p, h) == [i \in Inodes |-> IF i = p \/ i = h THEN d[i] ELSE <<>>]

\* A writer appends one character to the file at the path.
WriterAppend(ch) ==
    /\ path_ino # 0
    /\ Len(disk[path_ino]) < MaxLen
    /\ disk' = [disk EXCEPT ![path_ino] = Append(@, ch)]
    /\ UNCHANGED <<path_ino, regvars, wvars, hvars, tvars>>

\* The file is cleared in place: same inode, size 0.
Truncate ==
    /\ path_ino # 0
    /\ disk[path_ino] # <<>>
    /\ disk' = [disk EXCEPT ![path_ino] = <<>>]
    /\ pre' = 0
    /\ published' = 0
    /\ UNCHANGED <<path_ino, regvars, wvars, err, fresh, reset, tvars>>

\* The path is replaced by a new, empty file (log rotation: rename and create).
Rotate ==
    /\ path_ino # 0
    /\ path_ino' = FreshIno
    /\ disk' = Collect([disk EXCEPT ![FreshIno] = <<>>], FreshIno, file)
    /\ pre' = 0
    /\ published' = 0
    /\ UNCHANGED <<regvars, wvars, err, fresh, reset, tvars>>

\* The path disappears.
Delete ==
    /\ path_ino # 0
    /\ path_ino' = 0
    /\ disk' = Collect(disk, 0, file)
    /\ pre' = 0
    /\ published' = 0
    /\ UNCHANGED <<regvars, wvars, err, fresh, reset, tvars>>

\* The path appears again, as a new empty file.
Create ==
    /\ path_ino = 0
    /\ path_ino' = FreshIno
    /\ disk' = [disk EXCEPT ![FreshIno] = <<>>]
    /\ UNCHANGED <<regvars, wvars, hvars, tvars>>

FsInit ==
    /\ path_ino = 1
    /\ disk = [i \in Inodes |-> <<>>]

\* ------------------------------------------------------- log_watcher.py
\* Index of the first NL of s at or after index i, 0 if there is none.
RECURSIVE FindNL(_, _)
FindNL(s, i) ==
    IF i > Len(s) THEN 0
    ELSE IF s[i] = NL THEN i
    ELSE FindNL(s, i + 1)

\* file.readline() at position `at` of content c: the characters up to and with
\* the next terminator; without a terminator, everything up to end-of-file (a
\* partial line); the empty string at or beyond end-of-file.
ReadLineAt(c, at) ==
    IF at >= Len(c) THEN <<>>
    ELSE LET k == FindNL(c, at + 1)
         IN IF k = 0 THEN SubSeq(c, at + 1, Len(c)) ELSE SubSeq(c, at + 1, k)

\* line.rstrip('\r\n') of what readline returned (at most one terminator, last).
RStrip(l) ==
    IF l # <<>> /\ l[Len(l)] = NL THEN SubSeq(l, 1, Len(l) - 1) ELSE l

\* _is_rotated, lines 23-29; statFails: os.stat raises, the except returns True.
IsRotated(statFails) ==
    \/ path_ino = 0
    \/ /\ inode # 0
       /\ (statFails \/ path_ino # inode)

\* _close_file, lines 36-42: the handle is closed, self.file = None. self.inode
\* is left as it is. The handle's file goes away if the path no longer names it.
CloseFile ==
    /\ file' = 0
    /\ fpos' = 0
    /\ disk' = Collect(disk, path_ino, 0)
    /\ fresh' = FALSE

\* Mutant: the except clause does not catch the error and the task ends.
ExceptEscapes(e) ==
    /\ wpc' = "exited"
    /\ err' = e
    /\ UNCHANGED <<file, fpos, disk, fresh, line, reset, size>>

\* The except branch of watch, lines 124-127, for a failure of kind e.
Except(e) ==
    /\ CloseFile
    /\ wpc' = "sleep"
    /\ err' = e
    /\ line' = <<>>
    /\ reset' = FALSE
    /\ size' = 0

\* watch, lines 85-91: the head of a cycle.
WTop ==
    /\ wpc = "top"
    /\ UNCHANGED <<err, reset, line>>
    /\ IF file = 0
       THEN /\ rotated' = FALSE
            /\ wpc' = "wait"
            /\ UNCHANGED <<file, fpos, disk, fresh>>
       ELSE \E statFails \in BOOLEAN :
              IF IsRotated(statFails)
              THEN /\ CloseFile
                   /\ rotated' = TRUE
                   /\ wpc' = "wait"
              ELSE /\ rotated' = FALSE
                   /\ wpc' = "getsize"
                   /\ UNCHANGED <<file, fpos, disk, fresh>>
    /\ UNCHANGED <<path_ino, inode, first_open, position, size, regvars, pre,
                   published, tvars>>

\* _wait_for_file, lines 31-34 (watch, line 93): leaves the loop once the path
\* exists; until then the task sleeps and looks again.
WWait ==
    /\ wpc = "wait"
    /\ path_ino # 0
    /\ wpc' = "open"
    /\ UNCHANGED <<file, fpos, inode, first_open, position, rotated, size, line,
                   fsvars, regvars, hvars, tvars>>

\* The position of a newly opened handle, lines 100-106: end-of-file on the
\* first open, else the start (seek(0) after a rotation, and a new handle stands
\* at 0 anyway).
OpenSeek(first, sz) == IF first THEN sz ELSE 0

\* _open_file and watch, lines 94-107. openFails: open() raises.
WOpen ==
    /\ wpc = "open"
    /\ \E openFails \in BOOLEAN :
         IF path_ino = 0 \/ openFails
         THEN /\ file' = 0
              /\ inode' = 0
              /\ fpos' = 0
              /\ wpc' = "sleep"
              /\ err' = "open"
              /\ UNCHANGED <<first_open, position, pre, fresh>>
         ELSE /\ file' = path_ino
              /\ inode' = path_ino
              /\ fpos' = OpenSeek(first_open, Len(disk[path_ino]))
              /\ position' = fpos'
              /\ first_open' = FALSE
              /\ wpc' = "getsize"
              /\ pre' = IF first_open THEN Len(disk[path_ino]) ELSE pre
              /\ fresh' = (~first_open /\ inode # 0 /\ inode # path_ino)
              /\ UNCHANGED err
    /\ rotated' = FALSE
    /\ UNCHANGED <<size, line, fsvars, regvars, reset, published, tvars>>

\* Mutant: the truncation branch forgets self.file.seek(0).
SeekAfterSizeNoRewind(sz, at, fp) ==
    IF sz > at THEN at ELSE fp

\* The handle position after the size check, lines 110-115.
SeekAfterSize(sz, at, fp) ==
    IF sz < at THEN 0
    ELSE IF sz > at THEN at
    ELSE fp

\* watch, lines 109-115. sizeFails: os.path.getsize raises.
WGetSize ==
    /\ wpc = "getsize"
    /\ \E sizeFails \in BOOLEAN :
         IF path_ino = 0 \/ sizeFails
         THEN /\ Except("size")
              /\ UNCHANGED position
         ELSE /\ size' = Len(disk[path_ino])
              /\ fpos' = SeekAfterSize(size', position, fpos)
              /\ position' = IF size' < position THEN 0 ELSE position
              /\ reset' = (size' < position)
              /\ wpc' = "readline"
              /\ UNCHANGED <<file, disk, line, err, fresh>>
    /\ UNCHANGED <<path_ino, inode, first_open, rotated, regvars, pre, published,
                   tvars>>

\* watch, lines 117-122. readFails: readline raises. A non-blank line starts
\* manager.broadcast, which runs up to its first await; a blank line goes on to
\* the next cycle at once; no line sleeps one poll interval.
WReadLine ==
    /\ wpc = "readline"
    /\ \E readFails \in BOOLEAN :
         IF readFails
         THEN /\ Except("read")
              /\ UNCHANGED <<regvars, published>>
         ELSE LET l == ReadLineAt(disk[file], fpos)
              IN /\ line' = IF RStrip(l) # <<>> THEN l ELSE <<>>
                 /\ fpos' = fpos + Len(l)
                 /\ reset' = FALSE
                 /\ UNCHANGED <<file, disk, err, fresh>>
                 /\ IF l = <<>>
                    THEN /\ wpc' = "sleep"
                         /\ size' = 0
                         /\ UNCHANGED <<regvars, published>>
                    ELSE IF RStrip(l) # <<>>
                    THEN /\ wpc' = "broadcast"
                         /\ SendToAllBegin(WatchPub)
                         /\ published' = IF file = path_ino THEN fpos' ELSE published
                         /\ UNCHANGED <<endpoint, size>>
                    ELSE /\ wpc' = "top"
                         /\ size' = 0
                         /\ UNCHANGED <<regvars, published>>
    /\ UNCHANGED <<path_ino, inode, first_open, position, rotated, pre, tvars>>

\* Mutant: the offset is not moved after a publish.
AfterPublishStays(at, fp) == at

\* The offset stored after a publish, line 120: self.position = self.file.tell().
AfterPublish(at, fp) == fp

\* watch, line 120, or lines 124-127 when broadcast raised.
WAfterBroadcast ==
    /\ wpc = "broadcast"
    /\ it[WatchPub].pc \in {"returned", "raised"}
    /\ it' = [it EXCEPT ![WatchPub] = IdleFrame]
    /\ IF it[WatchPub].pc = "returned"
       THEN /\ position' = AfterPublish(position, fpos)
            /\ wpc' = "top"
            /\ fresh' = FALSE
            /\ line' = <<>>
            /\ size' = 0
            /\ UNCHANGED <<file, fpos, disk, err, reset>>
       ELSE /\ Except("publish")
            /\ UNCHANGED position
    /\ UNCHANGED <<path_ino, inode, first_open, rotated, active_connections,
                   endpoint, pre, published, tvars>>

\* asyncio.sleep(POLL_INTERVAL), lines 97, 122 and 127, then the next cycle.
WSleep ==
    /\ wpc = "sleep"
    /\ wpc' = "top"
    /\ err' = "none"
    /\ UNCHANGED <<file, fpos, inode, first_open, position, rotated, size, line,
                   fsvars, regvars, pre, fresh, reset, published, tvars>>

\* __init__, lines 7-12.
WatchInit ==
    /\ file = 0
    /\ fpos = 0
    /\ inode = 0
    /\ first_open = TRUE
    /\ position = 0
    /\ rotated = FALSE
    /\ size = 0
    /\ line = <<>>
    /\ err = "none"
    /\ pre = 0
    /\ fresh = FALSE
    /\ reset = FALSE
    /\ published = 0

\* ------------------------------------- log_watcher.py, get_last_lines
\* Bytes of a file: "a" a letter, " " a blank, NL the line feed, and "L" "C" the
\* lead and the continuation byte of one two-byte UTF-8 character, written "E"
\* once decoded.
Byte == {"a", " ", NL, "L", "C"}

\* bytes.decode('utf-8', errors='ignore'), from index i on: a lead byte with its
\* continuation byte is one character; a lead byte without, or a continuation
\* byte alone, is an invalid sequence and is skipped.
RECURSIVE DecodeFrom(_, _)
DecodeFrom(b, i) ==
    IF i > Len(b) THEN <<>>
    ELSE IF b[i] = "L"
    THEN IF i < Len(b) /\ b[i + 1] = "C"
         THEN <<"E">> \o DecodeFrom(b, i + 2)
         ELSE DecodeFrom(b, i + 1)
    ELSE IF b[i] = "C" THEN DecodeFrom(b, i + 1)
    ELSE <<b[i]>> \o DecodeFrom(b, i + 1)

Decode(b) == DecodeFrom(b, 1)

\* str.encode('utf-8').
RECURSIVE Encode(_)
Encode(t) ==
    IF t = <<>> THEN <<>>
    ELSE (IF Head(t) = "E" THEN <<"L", "C">> ELSE <<Head(t)>>) \o Encode(Tail(t))

\* text.split('\n'): the pieces between the line feeds, one more than there are
\* line feeds.
RECURSIVE Split(_)
Split(t) ==
    LET k == FindNL(t, 1)
    IN IF k = 0 THEN <<t>>
       ELSE <<SubSeq(t, 1, k - 1)>> \o Split(SubSeq(t, k + 1, Len(t)))

\* line.strip() is not empty.
NonBlank(l) == \E i \in 1..Len(l) : l[i] # " "

\* [line for line in lines if line.strip()], line 72.
RECURSIVE Keep(_)
Keep(ls) ==
    IF ls = <<>> THEN <<>>
    ELSE (IF NonBlank(Head(ls)) THEN <<Head(ls)>> ELSE <<>>) \o Keep(Tail(ls))

\* lines[-k:] for k >= 1.
LastN(ls, k) == IF Len(ls) <= k THEN ls ELSE SubSeq(ls, Len(ls) - k + 1, Len(ls))

\* chunk_size, line 56.
ChunkSize == Min(ChunkMax, Len(fbytes))

\* Mutant: get_last_lines has no try/except and the error leaves the call.
TailExceptRaises ==
    /\ result' = <<>>
    /\ raised' = TRUE
    /\ tpc' = "done"

\* The except branch of get_last_lines, lines 78-80: the error is printed and
\* the empty list returned.
TailExcept ==
    /\ result' = <<>>
    /\ raised' = FALSE
    /\ tpc' = "done"

\* get_last_lines, lines 47-56: the path is looked up and opened, the size read.
TailOpen ==
    /\ tpc = "call"
    /\ IF fstate = "missing"
       THEN /\ result' = <<>>
            /\ tpc' = "done"
            /\ UNCHANGED <<raised, pos>>
       ELSE IF fstate = "openfail"
       THEN TailExcept /\ UNCHANGED pos
       ELSE IF Len(fbytes) = 0
       THEN /\ result' = <<>>
            /\ tpc' = "done"
            /\ UNCHANGED <<raised, pos>>
       ELSE /\ pos' = Len(fbytes)
            /\ tpc' = "loop"
            /\ UNCHANGED <<result, raised>>
    /\ UNCHANGED <<fstate, fbytes, n, buffer, lines, regvars, fsvars, wvars, hvars>>

\* What one pass of the loop leaves in buffer and lines, lines 62-72, for the
\* bytes b = chunk + buffer and the new pos p: when the pass did not reach the
\* start of the file and the text has a line feed, the first piece is carried
\* over to the next pass; else every piece is taken as a line.
Pass(b, p, ls) ==
    LET split_lines == Split(Decode(b))
    IN IF p > 0 /\ Len(split_lines) > 1
       THEN [buffer |-> Encode(split_lines[1]),
             lines |-> Keep(Tail(split_lines) \o ls)]
       ELSE [buffer |-> <<>>, lines |-> Keep(split_lines \o ls)]

\* One pass of the while loop, lines 58-74.
TailChunk ==
    /\ tpc = "loop"
    /\ Len(lines) < n /\ pos > 0
    /\ IF fstate = "readfail"
       THEN TailExcept /\ UNCHANGED <<pos, buffer, lines>>
       ELSE LET read_size == Min(ChunkSize, pos)
                p == pos - read_size
                r == Pass(SubSeq(fbytes, p + 1, p + read_size) \o buffer, p, lines)
            IN /\ pos' = p
               /\ buffer' = r.buffer
               /\ UNCHANGED raised
               /\ IF Len(r.lines) > n
                  THEN /\ result' = LastN(r.lines, n)
                       /\ tpc' = "done"
                       /\ lines' = r.lines
                  ELSE /\ lines' = r.lines
                       /\ UNCHANGED <<result, tpc>>
    /\ UNCHANGED <<fstate, fbytes, n, regvars, fsvars, wvars, hvars>>

\* The loop is left, line 76.
TailReturn ==
    /\ tpc = "loop"
    /\ ~(Len(lines) < n /\ pos > 0)
    /\ result' = LastN(lines, n)
    /\ tpc' = "done"
    /\ UNCHANGED <<fstate, fbytes, n, pos, buffer, lines, raised,
                   regvars, fsvars, wvars, hvars>>

\* No get_last_lines call is modelled.
TailOff ==
    /\ fstate = "ok"
    /\ fbytes = <<>>
    /\ n = 1
    /\ pos = 0
    /\ buffer = <<>>
    /\ lines = <<>>
    /\ result = <<>>
    /\ raised = FALSE
    /\ tpc = "off"

\* ------------------------------------------------------------ SpecFanout
\* A publisher of SpecFanout is a watch task reduced to its broadcast calls.
broadcast(p) ==
    /\ SendToAllBegin(p)
    /\ UNCHANGED <<endpoint, fsvars, wvars, hvars, tvars>>

\* The caller resumes after broadcast returned or raised (log_watcher.py, line
\* 120 or lines 124-127).
BroadcastEnd(p) ==
    /\ it[p].pc \in {"returned", "raised"}
    /\ it' = [it EXCEPT ![p] = IdleFrame]
    /\ UNCHANGED <<active_connections, endpoint, fsvars, wvars, hvars, tvars>>

InitFanout == RegInit /\ FsInit /\ WatchInit /\ wpc = "off" /\ TailOff

NextFanout ==
    \/ \E c \in Chan : connect(c)
    \/ \E c \in Chan : SendHistorical(c)
    \/ \E c \in Chan : disconnect(c)
    \/ \E p \in Pubs : broadcast(p)
    \/ \E p \in Pubs : SendStep(p)
    \/ \E p \in Pubs : BroadcastEnd(p)

SpecFanout == InitFanout /\ [][NextFanout]_vars

\* ---------------------------------------------------------- SpecRegistry
\* The registry with one publisher, driven through its whole interface: the
\* subscriber life cycle of main.py and callers that subscribe a channel again.
NextRegistry ==
    \/ \E c \in Chan : connect(c)
    \/ \E c \in Chan : SendHistorical(c)
    \/ \E c \in Chan : disconnect(c)
    \/ \E c \in Chan : Resubscribe(c)
    \/ broadcast(WatchPub)
    \/ SendStep(WatchPub)
    \/ BroadcastEnd(WatchPub)

SpecRegistry == InitFanout /\ [][NextRegistry]_vars

\* ------------------------------------------------------------- SpecWatch
InitWatch == RegInit /\ FsInit /\ WatchInit /\ wpc = "top" /\ TailOff

NextWatch ==
    \/ \E ch \in Char : WriterAppend(ch)
    \/ Truncate
    \/ Rotate
    \/ Delete
    \/ Create
    \/ WTop
    \/ WWait
    \/ WOpen
    \/ WGetSize
    \/ WReadLine
    \/ WAfterBroadcast
    \/ WSleep
    \/ SendStep(WatchPub)
    \/ \E c \in WatchChan : connect(c)
    \/ \E c \in WatchChan : SendHistorical(c)
    \/ \E c \in WatchChan : disconnect(c)

SpecWatch == InitWatch /\ [][NextWatch]_vars

\* -------------------------------------------------------------- SpecTail
\* Every file of at most MaxTailLen bytes.
RECURSIVE BytesUpTo(_)
BytesUpTo(k) ==
    IF k = 0 THEN {<<>>}
    ELSE LET shorter == BytesUpTo(k - 1)
         IN shorter \cup {Append(b, x) : b \in shorter, x \in Byte}

InitTail ==
    /\ RegInit /\ FsInit /\ WatchInit /\ wpc = "off"
    /\ fstate \in {"ok", "missing", "openfail", "readfail"}
    /\ fbytes \in BytesUpTo(MaxTailLen)
    /\ fstate = "missing" => fbytes = <<>>
    /\ n \in 1..MaxN
    /\ pos = 0
    /\ buffer = <<>>
    /\ lines = <<>>
    /\ result = <<>>
    /\ raised = FALSE
    /\ tpc = "call"

NextTail ==
    \/ TailOpen
    \/ TailChunk
    \/ TailReturn

SpecTail == InitTail /\ [][NextTail]_vars

\* ---------------------------------------------------------------- claims
\* C1: a publish never raises, whatever subscribe, unsubscribe or other publish
\* runs while it awaits a send, and when it returns it has sent exactly once to
\* every channel that stayed subscribed from its start to its end.
C1_PublishSafe ==
    \A p \in Pubs :
        /\ it[p].pc # "raised"
        /\ it[p].pc = "returned" =>
              \A c \in it[p].stayed : c \in it[p].visited /\ c \notin it[p].twice

\* C2: a publish does not raise, and when it returns every channel whose send
\* failed is out of the subscriber set, while every channel whose send succeeded
\* (and that nobody else unsubscribed) is still in it.
C2_FailedRemoved ==
    \A p \in Pubs :
        /\ it[p].pc # "raised"
        /\ it[p].pc = "returned" =>
              /\ it[p].to_remove \cap active_connections = {}
              /\ ((it[p].visited \ it[p].to_remove) \cap it[p].stayed)
                     \subseteq active_connections

\* Index where the line being published starts in the handle's file.
LineStart == fpos - Len(line)

\* Number of terminator-only lines at the start of content c, from index i on.
RECURSIVE LeadingBlank(_, _)
LeadingBlank(c, i) ==
    IF i <= Len(c) /\ c[i] = NL THEN 1 + LeadingBlank(c, i + 1) ELSE 0

\* The first non-blank line of content c, with its terminator if it has one.
FirstNonBlank(c) == ReadLineAt(c, LeadingBlank(c, 1))

\* C3: the watcher never publishes a trailing unterminated fragment: every line
\* it hands to broadcast was read with its terminator.
C3_NoFragmentPublished ==
    wpc = "broadcast" => line[Len(line)] = NL

\* C4: while the path was neither rotated nor truncated since the first open, no
\* line that was in the file at the first open is published.
C4_NoPreexistingLine ==
    wpc = "broadcast" => LineStart >= pre

\* C5: after the path was replaced by another file, the handle opened on the new
\* file stands at offset 0, and the first line published from it is the first
\* non-blank line of the new file, read from where that line starts.
C5_NewFileFromStart ==
    [][/\ (file' # 0 /\ fresh') => position' = 0
       /\ (wpc = "readline" /\ wpc' = "broadcast" /\ fresh)
             => /\ line' = FirstNonBlank(disk[file])
                /\ fpos = LeadingBlank(disk[file], 1)]_vars

\* C6: a cycle that finds the file at the path, still the file of the handle,
\* smaller than the offset sets the offset and the handle to 0, and the line the
\* cycle then reads is the line at the start of the file.
C6_TruncationResets ==
    [][/\ (/\ wpc = "getsize" /\ wpc' = "readline"
           /\ path_ino = file
           /\ Len(disk[path_ino]) < position)
             => (position' = 0 /\ fpos' = 0 /\ reset')
       /\ (wpc = "readline" /\ wpc' # "readline" /\ reset /\ err' # "read")
             => /\ fpos' = Len(ReadLineAt(disk[file], 0))
                /\ wpc' = "broadcast" => line' = ReadLineAt(disk[file], 0)]_vars

\* C6 witness: the truncation branch was taken on a file that has a line again.
C6_Witness ==
    /\ wpc = "readline" /\ reset
    /\ path_ino = file
    /\ disk[file] # <<>>

\* C7: the watch loop is never left, and every failure of a cycle (open, size,
\* read, publish) leaves the watcher without a handle, sleeping one poll interval
\* before the next cycle; a watcher waiting for the path has no handle either.
C7_WatchNeverExits ==
    /\ wpc \in {"top", "wait", "open", "getsize", "readline", "broadcast", "sleep"}
    /\ err # "none" => (file = 0 /\ wpc = "sleep")
    /\ wpc \in {"wait", "open"} => file = 0

\* C7 witness: a publish raised and the watcher absorbed it.
C7_Witness ==
    /\ err = "publish"
    /\ wpc = "sleep"
    /\ file = 0

\* The file is valid UTF-8: decoding loses no byte.
Valid(b) == Encode(Decode(b)) = b

\* The non-blank lines of a file, found by reading it from the start.
TrueLines(b) == Keep(Split(Decode(b)))

\* C8: for a file with at least n non-blank lines, get_last_lines(n) returns
\* exactly the last n of them, oldest first.
C8_ExactlyLastN ==
    (/\ tpc = "done" /\ fstate = "ok" /\ Valid(fbytes)
     /\ Len(TrueLines(fbytes)) >= n)
        => result = LastN(TrueLines(fbytes), n)

\* C9: for a file with fewer than n non-blank lines, get_last_lines(n) returns
\* all of them, in file order, none blank and none split.
C9_AllLinesWhenFewer ==
    (/\ tpc = "done" /\ fstate = "ok" /\ Valid(fbytes)
     /\ Len(TrueLines(fbytes)) < n)
        => result = TrueLines(fbytes)

\* C10: get_last_lines never raises, and returns the empty list for a missing
\* path, an empty file, and a path that cannot be opened or read.
C10_EmptyOnFailure ==
    /\ ~raised
    /\ (tpc = "done" /\ (fstate # "ok" \/ fbytes = <<>>)) => result = <<>>

\* C10 witness: a read failed in the loop and the call returned the empty list.
C10_Witness ==
    /\ tpc = "done"
    /\ fstate = "readfail"
    /\ fbytes # <<>>
    /\ result = <<>>
    /\ ~raised

\* C11: a channel receives the Realtime messages of one watcher in the order of
\* the watcher's publishes and each of them at most once. The publishes of one
\* watcher never overlap (broadcast is awaited, one frame per publisher), so the
\* sequence a channel receives is a subsequence of the publish sequence exactly
\* when no publish sends its message to a channel a second time.
C11_InPublishOrder ==
    \A p \in Pubs : it[p].twice = {}

\* C12: every connect is followed by the send of one Historical message, also
\* with an empty backlog, and a channel is in the subscriber set only once that
\* send is over.
C12_HistoricalThenSubscribe ==
    [][\A c \in Chan :
          /\ (endpoint[c] = "closed" /\ endpoint'[c] # "closed")
                 => endpoint'[c] = "connected"
          /\ endpoint'[c] = "connected" => c \notin active_connections']_vars

\* C13: a publish that finds the subscriber set empty sends nothing, does not
\* raise and leaves the set empty; and when a publish has returned, with or
\* without subscribers, the watcher stores the offset behind the published line
\* and starts its next cycle.
C13_EmptyPublish ==
    [][/\ (wpc = "readline" /\ wpc' = "broadcast" /\ active_connections = {})
             => /\ it'[WatchPub].pc = "returned"
                /\ it'[WatchPub].visited = {}
                /\ active_connections' = {}
       /\ (wpc = "broadcast" /\ wpc' # "broadcast" /\ it[WatchPub].pc = "returned")
             => /\ position' = LineStart + Len(line)
                /\ wpc' = "top"
                /\ err' = "none"]_vars

\* C13 witness: a publish with no subscriber has returned without a send.
C13_Witness ==
    /\ wpc = "broadcast"
    /\ line # <<>>
    /\ it[WatchPub].pc = "returned"
    /\ it[WatchPub].visited = {}
    /\ it[WatchPub].stayed = {}
    /\ active_connections = {}

\* C14: subscribing a channel that is subscribed, and unsubscribing a channel
\* that is not (the endpoint of a channel a failed publish removed ends), change
\* neither the subscriber set nor any publish under way, and the unsubscribing
\* task ends as it does for a channel that was present.
C14_Idempotent ==
    [][\A c \in Chan :
          /\ (Resubscribe(c) /\ c \in active_connections)
                 => (active_connections' = active_connections /\ it' = it)
          /\ (disconnect(c) /\ c \notin active_connections)
                 => /\ active_connections' = active_connections
                    /\ it' = it
                    /\ endpoint'[c] = "closed"]_vars

\* C14 witness: a failed publish removed a channel, and the channel's endpoint
\* then unsubscribed it once more while the publish is still under way.
C14_Witness ==
    \E c \in Chan :
        /\ endpoint[c] = "closed"
        /\ c \in it[WatchPub].to_remove
        /\ c \in it[WatchPub].stayed
        /\ c \notin active_connections
        /\ it[WatchPub].pc = "returned"

\* C15: a cycle that reads a blank line publishes nothing and stores the offset
\* behind that line, so that the next cycle reads the line after it.
C15_BlankLineConsumed ==
    [][(wpc = "readline" /\ wpc' = "top")
          => (line' = <<>> /\ position' = fpos')]_vars

\* C16: while the path is neither rotated nor truncated, every line the watcher
\* publishes from the file at the path starts at or behind the end of the line
\* it published before: offsets strictly increase and no line is published
\* twice, also after a failed cycle and a reopen of the same file.
C16_FileOrder ==
    [][(wpc = "readline" /\ wpc' = "broadcast" /\ file = path_ino)
          => LineStart' >= published]_vars

\* C17: the handle is non-null exactly when the stored inode is non-null.
C17_HandleIffIdentity ==
    (file # 0) <=> (inode # 0)

\* C18: the offset the watcher stores after a publish is at most the file size
\* it observed in the size check of that cycle.
C18_OffsetWithinObservedSize ==
    [][(wpc = "broadcast" /\ wpc' = "top") => position' <= size]_vars

\* A complete (terminated) non-blank line starts at or behind offset `at` of
\* content c.
RECURSIVE HasUnread(_, _)
HasUnread(c, at) ==
    LET l == ReadLineAt(c, at)
    IN IF l = <<>> THEN FALSE
       ELSE IF l[Len(l)] = NL /\ RStrip(l) # <<>> THEN TRUE
       ELSE HasUnread(c, at + Len(l))

\* C19: when the watcher gives up the handle of a file the path no longer
\* names (a rotation), that file has no complete non-blank line behind the
\* watcher's offset: every line of the old generation was published first.
C19_OldLinesSurvive ==
    [][(/\ wpc = "top" /\ file # 0 /\ file' = 0
        /\ path_ino # 0 /\ path_ino # file)
          => ~HasUnread(disk[file], position)]_vars

\* Number of two-byte characters in the text t.
RECURSIVE CountE(_)
CountE(t) ==
    IF t = <<>> THEN 0
    ELSE (IF Head(t) = "E" THEN 1 ELSE 0) + CountE(Tail(t))

\* The lines of ls, one behind the other.
RECURSIVE Flatten(_)
Flatten(ls) == IF ls = <<>> THEN <<>> ELSE Head(ls) \o Flatten(Tail(ls))

\* C20: for a valid UTF-8 file that get_last_lines read to its start, the lines
\* collected hold every multi-byte character of the file: none is lost where a
\* chunk boundary falls between its bytes.
C20_NoCharacterLost ==
    (tpc = "done" /\ fstate = "ok" /\ Valid(fbytes) /\ pos = 0)
        => CountE(Flatten(lines)) = CountE(Decode(fbytes))

====
